---- MODULE Spec2Model ----
(***************************************************************************)
(* Model of WeatherDataProcessor (src/data_processor.py): the grid         *)
(* aggregation, the temperature zones and the nearest-neighbour gradients  *)
(* computed over one batch of observations (a pandas DataFrame).           *)
(*                                                                         *)
(* Numbers.  Latitude, longitude, grid_size and temperature are integers   *)
(* counted in one fixed unit (a coordinate of 3 with grid_size 2 stands    *)
(* for 0.03 degrees on a 0.02 degree grid).  Means are kept as exact       *)
(* fractions <<sum, count>>, the standard deviation is never rooted: every *)
(* comparison with mean -/+ std is made on squares, and a distance is kept *)
(* as its square.  A missing value (NaN) is the empty tuple <<>> and a     *)
(* present value v is <<v>>.                                               *)
(*                                                                         *)
(* The humidity, pressure and wind_speed columns are only averaged per     *)
(* group by the code and are left out.  A batch handed to an operation has *)
(* non-missing coordinates, as after clean_weather_data; the raw batches   *)
(* of prepare_for_mapping may miss them.                                   *)
(*                                                                         *)
(* np.argsort orders equal distances in an order the library does not      *)
(* specify but computes from its argument alone: the choice is made once   *)
(* per array of distances and kept in argsort.                             *)
(*                                                                         *)
(* A second invocation of the processor, run by another thread on a        *)
(* DataFrame of its own, is kept in the record other.  The rate limiter of *)
(* PerformanceOptimizer (src/optimization.py) is modelled with the clock   *)
(* in whole seconds.                                                       *)
(*                                                                         *)
(* XweatherClient (src/xweather_client.py) is modelled by its response     *)
(* cache, a TTLCache read against a timer in whole seconds, and by the     *)
(* answers a server may give.  The request methods of PerformanceOptimizer *)
(* and the marker clustering of MapPerformanceOptimizer work on a list of  *)
(* requests (dicts of numbers) and on the DataFrame df; the worker threads *)
(* of parallel_api_calls take one step each to start and to finish a call. *)
(***************************************************************************)
EXTENDS Integers, Sequences, FiniteSets, TLC

\* ---------------------------------------------------------------- bounds
\* Grid batches: latitude in -MaxNeg..MaxLat, longitude in -MaxNeg..0.
MaxNeg == 1
MaxLat == 3
\* grid_size in 1..MaxGrid.
MaxGrid == 4
\* Longest batch handed to aggregate_by_grid.
MaxGridBatch == 2
\* Zone batches: temperature in 0..MaxTemp (or missing), at most MaxZoneBatch rows.
MaxTemp == 5
MaxZoneBatch == 4
\* Longest batch handed to calculate_weather_gradients.
MaxGradBatch == 3
\* Longest batch on which the three operations are mixed.
MaxBatch == 3
\* Longest raw batch handed to prepare_for_mapping.
MaxRawBatch == 2
\* Longest batch of each of two concurrent invocations.
MaxConcurrentBatch == 2
\* implement_rate_limiting: threads 1..MaxThreads, max_requests_per_minute in
\* 1..MaxLimit, at most MaxCalls calls, over MaxElapsed seconds at most.
MaxThreads == 2
MaxLimit == 2
MaxCalls == 3
MaxElapsed == 60

\* XweatherClient: at most MaxClientCalls calls, until the timer reads MaxTimer.
MaxClientCalls == 3
MaxTimer == 400

\* optimize_marker_clustering: at most MaxMarkers markers, cluster_threshold in
\* 1..MaxThreshold.
MaxMarkers == 3
MaxThreshold == 2

\* PerformanceOptimizer: at most MaxRequests requests, batch_size in
\* 1..MaxBatchSize, max_workers in 1..MaxWorkers.
MaxRequests == 3
MaxBatchSize == 3
MaxWorkers == 2

VARIABLES
    df,                 \* the caller's DataFrame: rows and the columns added in place
    ret,                \* what the last finished call returned (or raised)
    pc,                 \* "idle", or "gradients" inside calculate_weather_gradients' loop
    i,                  \* calculate_weather_gradients: rows done by the loop
    nearest_indices,    \* calculate_weather_gradients: neighbours of the row just done
    temp_gradients,     \* calculate_weather_gradients: the list built by the loop
    argsort,            \* np.argsort of this build: for each row of distances
                        \* sorted so far, the entries [1:4] of the order returned
    observations,       \* prepare_for_mapping: the raw DataFrame it is given
    other,              \* a second invocation, on a DataFrame of its own: its
                        \* df, ret, pc, i, nearest_indices and temp_gradients
    request_times,      \* PerformanceOptimizer.request_times
    rate_limit_lock,    \* PerformanceOptimizer.rate_limit_lock: the threads
                        \* holding it (none or one)
    clock,              \* time.time(), in whole seconds
    calls,              \* the calls of implement_rate_limiting so far: when,
                        \* with which limit, and what each returned
    cache,              \* XweatherClient.cache (a TTLCache): its entries, oldest
                        \* first, each with the time it expires at
    timer,              \* time.monotonic(), the timer of the TTLCache, in seconds
    sent,               \* the HTTP requests sent by session.get so far
    making,             \* the call of _make_request that found its key in the
                        \* cache and has not read the entry yet (none or one)
    made,               \* the calls of get_observations and get_forecast that
                        \* are over: what _make_request gave, what they raised
    requests_data,      \* the list handed to a method of PerformanceOptimizer
    future_to_request,  \* parallel_api_calls: the futures, one per submitted
                        \* call, in the order of submission
    results,            \* parallel_api_calls: the list built by the caller
    invocation          \* the call of a method of an optimizer: the method, its
                        \* other arguments, and the list returned once it has

\* State of the PerformanceOptimizer and its callers.
limiterVars == <<request_times, rate_limit_lock, clock, calls>>

\* The invocation on df: its DataFrame, return value and locals.
thisCall == <<df, ret, pc, i, nearest_indices, temp_gradients>>

\* State of the XweatherClient and of the server it calls.
clientVars == <<cache, timer, sent, making, made>>

\* A call of optimize_api_requests, batch_requests, parallel_api_calls or
\* optimize_marker_clustering.
requestVars == <<requests_data, future_to_request, results, invocation>>

apiVars == <<clientVars, requestVars>>

\* What an operation of WeatherDataProcessor on the DataFrame df leaves alone.
elsewhere ==
    <<observations, other, request_times, rate_limit_lock, clock, calls, apiVars>>

vars ==
    <<df, ret, pc, i, nearest_indices, temp_gradients, argsort,
      observations, other, request_times, rate_limit_lock, clock, calls,
      cache, timer, sent, making, made,
      requests_data, future_to_request, results, invocation>>

\* ---------------------------------------------------------------- values
Missing == <<>>

Some(v) == <<v>>

IsMissing(v) == v = Missing

Val(v) == v[1]

\* A column of the DataFrame that does not exist (yet).
NoColumn == [present |-> FALSE, values |-> <<>>]

Column(vs) == [present |-> TRUE, values |-> vs]

RECURSIVE SumOver(_, _)
\* Sum of f[x] for x in the finite set S.
SumOver(f, S) ==
    IF S = {} THEN 0
    ELSE LET x == CHOOSE y \in S : TRUE
         IN  f[x] + SumOver(f, S \ {x})

MinOf(S) == CHOOSE x \in S : \A y \in S : x <= y

MaxOf(S) == CHOOSE x \in S : \A y \in S : y <= x

Indices(rows) == 1..Len(rows)

\* The rows whose temperature is not NaN.
WithTemperature(rows) == {k \in Indices(rows) : ~IsMissing(rows[k].temperature)}

\* ------------------------------------------------------ aggregate_by_grid
\* Truncating division: the quotient rounded toward zero.
TruncDiv(a, g) == IF a >= 0 THEN a \div g ELSE -((-a) \div g)

\* Division rounded to the nearest integer (halves up).
RoundDiv(a, g) == (2 * a + g) \div (2 * g)

\* Python's // on floats: the quotient rounded toward minus infinity.
FloorDiv(a, g) == a \div g

\* (df[col] // grid_size) * grid_size
GridKey(v, g) == FloorDiv(v, g) * g

RowKey(r, g) == <<GridKey(r.latitude, g), GridKey(r.longitude, g)>>

\* groupby as if rows with a NaN temperature had been dropped first.
GroupKeysDropMissing(rows, g) == {RowKey(rows[k], g) : k \in WithTemperature(rows)}

\* df.groupby(['grid_lat', 'grid_lon']): one group per distinct key of a row.
GroupKeys(rows, g) == {RowKey(rows[k], g) : k \in Indices(rows)}

KeyLE(a, b) == a[1] < b[1] \/ (a[1] = b[1] /\ a[2] <= b[2])

RECURSIVE SortedKeys(_)
\* groupby sorts the group keys (sort=True).
SortedKeys(S) ==
    IF S = {} THEN <<>>
    ELSE LET m == CHOOSE x \in S : \A y \in S : KeyLE(x, y)
         IN  <<m>> \o SortedKeys(S \ {m})

\* count of a temperature column counts the non-NaN values only.
CountNonMissing(rows, members) == Cardinality(members \cap WithTemperature(rows))

\* .agg({'temperature': ['mean', 'min', 'max', 'count']}) of one group.
GridCell(rows, g, key) ==
    LET members == {k \in Indices(rows) : RowKey(rows[k], g) = key}
        temps   == members \cap WithTemperature(rows)
        t       == [k \in Indices(rows) |->
                       IF IsMissing(rows[k].temperature) THEN 0
                       ELSE Val(rows[k].temperature)]
    IN  [ grid_lat      |-> key[1],
          grid_lon      |-> key[2],
          temp_mean     |-> IF temps = {} THEN Missing
                            ELSE <<SumOver(t, temps), Cardinality(temps)>>,
          temp_min      |-> IF temps = {} THEN Missing
                            ELSE Some(MinOf({t[k] : k \in temps})),
          temp_max      |-> IF temps = {} THEN Missing
                            ELSE Some(MaxOf({t[k] : k \in temps})),
          station_count |-> CountNonMissing(rows, members) ]

\* The rows of the GeoDataFrame aggregate_by_grid returns.
AggregateCells(rows, g) ==
    LET keys == SortedKeys(GroupKeys(rows, g))
    IN  [c \in 1..Len(keys) |-> GridCell(rows, g, keys[c])]

\* --------------------------------------------------- create_weather_zones
\* Temperature of row k (read only where it is present).
TempOf(rows, k) == Val(rows[k].temperature)

\* df['temperature'].mean() is TempSum / TempCount over the non-NaN values (NaN
\* when there are none).
TempCount(rows) == Cardinality(WithTemperature(rows))

\* The non-NaN temperatures, in row order.
Temperatures(rows) ==
    LET present(r) == ~IsMissing(r.temperature)
        kept       == SelectSeq(rows, present)
    IN  [k \in 1..Len(kept) |-> Val(kept[k].temperature)]

RECURSIVE SeqSum(_)
SeqSum(s) == IF s = <<>> THEN 0 ELSE Head(s) + SeqSum(Tail(s))

TempSum(rows) == SeqSum(Temperatures(rows))

RECURSIVE SqDevSumOf(_, _, _)
\* Sum of (n * t - s)^2 over the temperatures ts.
SqDevSumOf(ts, n, s) ==
    IF ts = <<>> THEN 0
    ELSE (n * Head(ts) - s) * (n * Head(ts) - s) + SqDevSumOf(Tail(ts), n, s)

\* Sum over the non-NaN temperatures of (n * t - sum)^2 = n^2 * (t - mean)^2.
\* df['temperature'].std() is the sample standard deviation (ddof = 1):
\* std^2 = sum (t - mean)^2 / (n - 1) = SqDevSum / (n^2 * (n - 1)).
SqDevSum(rows) ==
    LET ts == Temperatures(rows)
    IN  SqDevSumOf(ts, Len(ts), SeqSum(ts))

\* The divisor of the population standard deviation (ddof = 0).
StdDivisorPopulation(rows) == TempCount(rows)

\* The divisor of Series.std(), whose default is ddof = 1.
StdDivisor(rows) == TempCount(rows) - 1

\* temp_std squared, as the fraction <<numerator, denominator>>:
\* sum (t - mean)^2 / divisor = SqDevSum / (n^2 * divisor).
TempStdSquared(rows) ==
    <<SqDevSum(rows), TempCount(rows) * TempCount(rows) * StdDivisor(rows)>>

\* std() of fewer than two values is NaN.
StdIsNaN(rows) == TempCount(rows) < 2

\* pd.cut raises ValueError when the bin edges [-inf, mean - std, mean + std, inf]
\* hold a NaN or are not unique (std = 0).
BinsRejected(rows) == StdIsNaN(rows) \/ SqDevSum(rows) = 0

\* With n = TempCount, a = n * t - TempSum and D = SqDevSum:
\*   t <= mean - std  iff  a <= 0 and a^2 * (n - 1) >= D
\*   t >  mean + std  iff  a >  0 and a^2 * (n - 1) >  D
\* pd.cut with left-closed bins (right=False): [-inf, lo), [lo, hi), [hi, inf).
CutZoneLeftClosed(t, rows) ==
    LET n == TempCount(rows)
        a == n * t - TempSum(rows)
        D == SqDevSum(rows)
    IN  IF a < 0 /\ a * a * (n - 1) > D THEN "Cold Zone"
        ELSE IF a > 0 /\ a * a * (n - 1) >= D THEN "Warm Zone"
        ELSE "Moderate Zone"

\* pd.cut with the bin edges at mean -/+ 2 * std.
CutZoneTwoStd(t, rows) ==
    LET n == TempCount(rows)
        a == n * t - TempSum(rows)
        D == SqDevSum(rows)
    IN  IF a <= 0 /\ a * a * (n - 1) >= 4 * D THEN "Cold Zone"
        ELSE IF a > 0 /\ a * a * (n - 1) > 4 * D THEN "Warm Zone"
        ELSE "Moderate Zone"

\* pd.cut(bins=[-inf, mean - std, mean + std, inf]) with the default right=True:
\* the bins are (-inf, lo], (lo, hi], (hi, inf).
CutZone(t, rows) ==
    LET n == TempCount(rows)
        a == n * t - TempSum(rows)
        D == SqDevSum(rows)
    IN  IF a <= 0 /\ a * a * StdDivisor(rows) >= D THEN "Cold Zone"
        ELSE IF a > 0 /\ a * a * StdDivisor(rows) > D THEN "Warm Zone"
        ELSE "Moderate Zone"

\* The temp_zone column: a NaN temperature gets no zone (NaN).
TempZoneColumn(rows) ==
    [k \in Indices(rows) |->
        IF IsMissing(rows[k].temperature) THEN "NaN"
        ELSE CutZone(TempOf(rows, k), rows)]

ZoneLabels == <<"Cold Zone", "Moderate Zone", "Warm Zone">>

\* .agg(...) of one zone's group (members is not empty).
ZoneRecord(rows, label, members) ==
    LET lat == [k \in Indices(rows) |-> rows[k].latitude]
        lon == [k \in Indices(rows) |-> rows[k].longitude]
        t   == [k \in Indices(rows) |->
                   IF IsMissing(rows[k].temperature) THEN 0 ELSE TempOf(rows, k)]
    IN  [ zone          |-> label,
          lat_mean      |-> <<SumOver(lat, members), Cardinality(members)>>,
          station_count |-> Cardinality(members),
          lon_mean      |-> <<SumOver(lon, members), Cardinality(members)>>,
          temp_mean     |-> <<SumOver(t, members), Cardinality(members)>>,
          temp_min      |-> MinOf({t[k] : k \in members}),
          temp_max      |-> MaxOf({t[k] : k \in members}) ]

\* df.groupby('temp_zone', observed=False): one row per category, also for a
\* category no row falls in (count 0, the other aggregates NaN).
ZoneRowsUnobserved(rows, column, j) ==
    [n \in 1..Len(ZoneLabels) |->
        LET members == {k \in Indices(rows) : column[k] = ZoneLabels[n]}
        IN  IF members = {}
            THEN [zone |-> ZoneLabels[n], lat_mean |-> Missing, station_count |-> 0,
                  lon_mean |-> Missing, temp_mean |-> Missing,
                  temp_min |-> Missing, temp_max |-> Missing]
            ELSE ZoneRecord(rows, ZoneLabels[n], members)]

RECURSIVE ZoneRows(_, _, _)
\* df.groupby('temp_zone', observed=True): the zones that have rows, in the
\* order of the categories, from label number j on.
ZoneRows(rows, column, j) ==
    IF j > Len(ZoneLabels) THEN <<>>
    ELSE LET members == {k \in Indices(rows) : column[k] = ZoneLabels[j]}
         IN  (IF members = {} THEN <<>>
              ELSE <<ZoneRecord(rows, ZoneLabels[j], members)>>)
             \o ZoneRows(rows, column, j + 1)

\* -------------------------------------------- calculate_weather_gradients
\* cdist(coords, coords, 'euclidean')[a][b], squared: distances are compared and
\* tested against 0 through their squares.
SqDist(rows, a, b) ==
    (rows[a].latitude - rows[b].latitude) * (rows[a].latitude - rows[b].latitude)
    + (rows[a].longitude - rows[b].longitude) * (rows[a].longitude - rows[b].longitude)

\* np.argsort(distances[k]): the row numbers in non-decreasing distance from row
\* k.  The default sort is not stable, so rows at equal distance (row k itself
\* and any row at k's coordinates among them) come in any order.
ArgSorts(rows, k) ==
    {p \in Permutations(Indices(rows)) :
        \A a, b \in Indices(rows) :
            a < b => SqDist(rows, k, p[a]) <= SqDist(rows, k, p[b])}

\* order[1:4]: the entries after the first, three at most.
NearestIndices(rows, order) ==
    LET last == IF Len(rows) < 4 THEN Len(rows) ELSE 4
    IN  {order[j] : j \in 2..last}

\* distances[k], squared: what np.argsort is given for row k.
DistanceRow(rows, k) == [b \in Indices(rows) |-> SqDist(rows, k, b)]

\* np.argsort(distances[k])[1:4] were the sort free to order equal distances
\* anew on every call.
ArgSortSlicesAnew(rows, k, memo) ==
    {NearestIndices(rows, order) : order \in ArgSorts(rows, k)}

\* np.argsort(distances[k])[1:4], as a set.  The sort is a function of the
\* array it is given: the order of equal distances is not specified, but the
\* same array is ordered the same way every time.  memo holds the slices
\* returned so far.
ArgSortSlices(rows, k, memo) ==
    IF DistanceRow(rows, k) \in DOMAIN memo
    THEN {memo[DistanceRow(rows, k)]}
    ELSE {NearestIndices(rows, order) : order \in ArgSorts(rows, k)}

\* memo with the slice N recorded for distances[k].
Memoized(memo, rows, k, N) ==
    IF DistanceRow(rows, k) \in DOMAIN memo THEN memo
    ELSE memo @@ (DistanceRow(rows, k) :> N)

\* A gradient value.  0 is ZeroGradient and NaN is NaNGradient; any other value
\* is num / (den * sum of the distances to the neighbours), kept with the
\* squared distances (sqdists[d] neighbours at squared distance d).
ZeroGradient == [nan |-> FALSE, num |-> 0, den |-> 1, sqdists |-> <<>>]

NaNGradient == [nan |-> TRUE, num |-> 0, den |-> 1, sqdists |-> <<>>]

\* Squared distances from row k to the rows of N, with multiplicity.
SqDistBag(rows, k, N) ==
    [d \in {SqDist(rows, k, b) : b \in N} |->
        Cardinality({b \in N : SqDist(rows, k, b) = d})]

\* The gradient of row k over the neighbours N, were it defined as 0 whenever
\* fewer than 3 neighbours exist.
GradientNeedsThree(rows, k, N) ==
    IF Cardinality(N) < 3 THEN ZeroGradient
    ELSE IF \A b \in N : SqDist(rows, k, b) = 0 THEN ZeroGradient
    ELSE NaNGradient

\* The gradient of row k over the neighbours N without the "if distance > 0"
\* guard: the division by a zero mean distance gives nan or inf.
GradientUnguarded(rows, k, N) ==
    LET known == N \cap WithTemperature(rows)
        t     == [b \in Indices(rows) |->
                     IF IsMissing(rows[b].temperature) THEN 0 ELSE TempOf(rows, b)]
        diff  == Cardinality(known) * t[k] - SumOver(t, known)
    IN  IF N = {} THEN ZeroGradient
        ELSE IF \A b \in N : SqDist(rows, k, b) = 0 THEN NaNGradient
        ELSE IF IsMissing(rows[k].temperature) \/ known = {} THEN NaNGradient
        ELSE IF diff = 0 THEN ZeroGradient
        ELSE [nan |-> FALSE, num |-> diff * Cardinality(N),
              den |-> Cardinality(known), sqdists |-> SqDistBag(rows, k, N)]

\* temp_diff = temperature[k] - mean(temperature[N])   (the mean skips NaN)
\* distance  = mean(distances[k][N])
\* gradient  = temp_diff / distance if distance > 0 else 0
GradientOf(rows, k, N) ==
    LET known == N \cap WithTemperature(rows)
        t     == [b \in Indices(rows) |->
                     IF IsMissing(rows[b].temperature) THEN 0 ELSE TempOf(rows, b)]
        \* temp_diff = diff / Cardinality(known)
        diff  == Cardinality(known) * t[k] - SumOver(t, known)
    IN  IF N = {} THEN ZeroGradient
        ELSE IF \A b \in N : SqDist(rows, k, b) = 0 THEN ZeroGradient
        ELSE IF IsMissing(rows[k].temperature) \/ known = {} THEN NaNGradient
        ELSE IF diff = 0 THEN ZeroGradient
        ELSE [nan |-> FALSE, num |-> diff * Cardinality(N),
              den |-> Cardinality(known), sqdists |-> SqDistBag(rows, k, N)]

\* ----------------------------------------------------- clean_weather_data
\* A cell of the raw temperature column: a number, or a text that is no number.
RawNumber(v) == [numeric |-> TRUE, value |-> Some(v)]

RawText == [numeric |-> FALSE, value |-> Missing]

\* pd.to_numeric(..., errors='coerce'): what is no number becomes NaN.
ToNumeric(cell) == IF cell.numeric THEN cell.value ELSE Missing

\* df.dropna(subset=['latitude', 'longitude']), then the temperature column
\* made numeric.  Nothing else is tested: a coordinate is kept whatever its
\* value.
CleanRows(raw) ==
    LET located(r) == ~IsMissing(r.latitude) /\ ~IsMissing(r.longitude)
        kept       == SelectSeq(raw, located)
    IN  [k \in 1..Len(kept) |->
            [latitude    |-> Val(kept[k].latitude),
             longitude   |-> Val(kept[k].longitude),
             temperature |-> ToNumeric(kept[k].temperature)]]

\* aggregate_by_grid's default grid_size (0.01 degrees), the unit of the model.
DefaultGridSize == 1

\* ---------------------------------------------------------- return values
NoReturn ==
    [op |-> "none", grid_size |-> 0, raised |-> "none", cells |-> <<>>,
     zones |-> <<>>, is_df |-> FALSE]

Returned(op, g, cells, zones, isdf) ==
    [op |-> op, grid_size |-> g, raised |-> "none", cells |-> cells,
     zones |-> zones, is_df |-> isdf]

Raised(op, error) ==
    [op |-> op, grid_size |-> 0, raised |-> error, cells |-> <<>>,
     zones |-> <<>>, is_df |-> FALSE]

\* A call of a method of an optimizer: the method, the arguments it was given
\* besides the list or DataFrame, whether it has returned and the list it
\* returned.
NotCalled == [op |-> "none", args |-> <<>>, returned |-> FALSE, value |-> <<>>]

Called(op, args) == [op |-> op, args |-> args, returned |-> FALSE, value |-> <<>>]

ReturnedList(op, args, value) ==
    [op |-> op, args |-> args, returned |-> TRUE, value |-> value]

\* ---------------------------------------------------------------- batches
NewFrame(rows) ==
    [rows |-> rows, grid_lat |-> NoColumn, grid_lon |-> NoColumn,
     temp_zone |-> NoColumn, temperature_gradient |-> NoColumn]

Observation(lat, lon, temp) ==
    [latitude |-> lat, longitude |-> lon, temperature |-> temp]

\* All sequences over S of length at most n.
SeqUpTo(S, n) == UNION {[1..m -> S] : m \in 0..n}

GridSizes == 1..MaxGrid

GridObservations ==
    {Observation(lat, lon, temp) :
        lat \in (-MaxNeg)..MaxLat, lon \in (-MaxNeg)..0, temp \in {Missing, Some(0)}}

\* An invocation that has not started, on a DataFrame with these rows.
NewCall(rows) ==
    [df |-> NewFrame(rows), ret |-> NoReturn, pc |-> "idle", i |-> 0,
     nearest_indices |-> {}, temp_gradients |-> <<>>]

\* PerformanceOptimizer.__init__, at the time now.
NewOptimizer(now) ==
    /\ request_times = <<>>
    /\ rate_limit_lock = {}
    /\ clock = now
    /\ calls = <<>>

\* XweatherClient.__init__: an empty cache; nothing sent, no call made.
NewClient ==
    /\ cache = <<>>
    /\ timer = 0
    /\ sent = <<>>
    /\ making = <<>>
    /\ made = <<>>

\* No method of the optimizer has been called.
NoRequests ==
    /\ requests_data = <<>>
    /\ future_to_request = <<>>
    /\ results = <<>>
    /\ invocation = NotCalled

StartWith(rows) ==
    /\ df = NewFrame(rows)
    /\ ret = NoReturn
    /\ pc = "idle"
    /\ i = 0
    /\ nearest_indices = {}
    /\ temp_gradients = <<>>
    /\ argsort = <<>>
    /\ observations = <<>>
    /\ other = NewCall(<<>>)
    /\ NewClient
    /\ NoRequests
    /\ NewOptimizer(0)

\* Raw observations: a latitude that is missing, valid, or beyond 90 degrees
\* (9001 units of 0.01 degrees), a longitude that is missing or valid, and a
\* temperature that is a number or a text.
RawObservations ==
    {[latitude |-> lat, longitude |-> lon, temperature |-> temp] :
        lat \in {Missing, Some(0), Some(1), Some(9001)},
        lon \in {Missing, Some(0)},
        temp \in {RawNumber(0), RawNumber(1), RawText}}

InitPrepare ==
    \E raw \in SeqUpTo(RawObservations, MaxRawBatch) :
        /\ observations = raw
        /\ df = NewFrame(<<>>)
        /\ ret = NoReturn
        /\ pc = "idle"
        /\ i = 0
        /\ nearest_indices = {}
        /\ temp_gradients = <<>>
        /\ argsort = <<>>
        /\ other = NewCall(<<>>)
        /\ NewClient
        /\ NoRequests
        /\ NewOptimizer(0)

ZoneObservations ==
    {Observation(0, 0, temp) : temp \in {Missing} \cup {Some(t) : t \in 0..MaxTemp}}

\* Gradient batches: stations at three corners of a unit square (distances 0, 1
\* and sqrt 2), with a temperature of 0 or 1 or none.
GradPoints == {<<0, 0>>, <<0, 1>>, <<1, 0>>}

GradObservations ==
    {Observation(p[1], p[2], temp) :
        p \in GradPoints, temp \in {Missing, Some(0), Some(1)}}

InitGrid == \E rows \in SeqUpTo(GridObservations, MaxGridBatch) : StartWith(rows)

\* ---------------------------------------------------------------- actions
\* aggregate_by_grid without "if df.empty": an empty DataFrame has no
\* 'latitude' column and df['latitude'] raises KeyError.
AggregateByGridUnguarded(g) ==
    /\ pc = "idle"
    /\ IF df.rows = <<>>
       THEN /\ ret' = Raised("aggregate_by_grid", "KeyError")
            /\ df' = df
       ELSE /\ df' = [df EXCEPT
                        !.grid_lat = Column([k \in Indices(df.rows) |->
                                                GridKey(df.rows[k].latitude, g)]),
                        !.grid_lon = Column([k \in Indices(df.rows) |->
                                                GridKey(df.rows[k].longitude, g)])]
            /\ ret' = Returned("aggregate_by_grid", g,
                               AggregateCells(df.rows, g), <<>>, FALSE)
    /\ UNCHANGED <<pc, i, nearest_indices, temp_gradients>>
    /\ UNCHANGED <<argsort, elsewhere>>

AggregateByGrid(g) ==
    /\ pc = "idle"
    /\ IF df.rows = <<>>
       THEN \* if df.empty: return gpd.GeoDataFrame()
            /\ ret' = Returned("aggregate_by_grid", g, <<>>, <<>>, FALSE)
            /\ df' = df
       ELSE /\ df' = [df EXCEPT
                        !.grid_lat = Column([k \in Indices(df.rows) |->
                                                GridKey(df.rows[k].latitude, g)]),
                        !.grid_lon = Column([k \in Indices(df.rows) |->
                                                GridKey(df.rows[k].longitude, g)])]
            /\ ret' = Returned("aggregate_by_grid", g,
                               AggregateCells(df.rows, g), <<>>, FALSE)
    /\ UNCHANGED <<pc, i, nearest_indices, temp_gradients>>
    /\ UNCHANGED <<argsort, elsewhere>>

CreateWeatherZones ==
    /\ pc = "idle"
    /\ IF df.rows = <<>>
       THEN \* if df.empty: return gpd.GeoDataFrame()
            /\ ret' = Returned("create_weather_zones", 0, <<>>, <<>>, FALSE)
            /\ df' = df
       ELSE IF BinsRejected(df.rows)
       THEN \* pd.cut raises before df['temp_zone'] is assigned
            /\ ret' = Raised("create_weather_zones", "ValueError")
            /\ df' = df
       ELSE /\ df' = [df EXCEPT !.temp_zone = Column(TempZoneColumn(df.rows))]
            /\ ret' = Returned("create_weather_zones", 0, <<>>,
                               ZoneRows(df.rows, TempZoneColumn(df.rows), 1), FALSE)
    /\ UNCHANGED <<pc, i, nearest_indices, temp_gradients>>
    /\ UNCHANGED <<argsort, elsewhere>>

\* The call, up to the loop: if df.empty or len(df) < 2: return df
CalculateWeatherGradients ==
    /\ pc = "idle"
    /\ IF Len(df.rows) < 2
       THEN /\ ret' = Returned("calculate_weather_gradients", 0, <<>>, <<>>, TRUE)
            /\ UNCHANGED <<pc, i, nearest_indices, temp_gradients>>
       ELSE /\ pc' = "gradients"
            /\ i' = 0
            /\ nearest_indices' = {}
            /\ temp_gradients' = <<>>
            /\ ret' = ret
    /\ df' = df
    /\ UNCHANGED <<argsort, elsewhere>>

\* One iteration of "for i in range(len(df))", for row i + 1.
GradientStep ==
    /\ pc = "gradients"
    /\ i < Len(df.rows)
    /\ \E N \in ArgSortSlices(df.rows, i + 1, argsort) :
           /\ nearest_indices' = N
           /\ temp_gradients' = Append(temp_gradients, GradientOf(df.rows, i + 1, N))
           /\ argsort' = Memoized(argsort, df.rows, i + 1, N)
    /\ i' = i + 1
    /\ UNCHANGED <<df, ret, pc>>
    /\ UNCHANGED elsewhere

\* df['temperature_gradient'] = temp_gradients; return df
GradientReturn ==
    /\ pc = "gradients"
    /\ i = Len(df.rows)
    /\ df' = [df EXCEPT !.temperature_gradient = Column(temp_gradients)]
    /\ ret' = Returned("calculate_weather_gradients", 0, <<>>, <<>>, TRUE)
    /\ pc' = "idle"
    /\ i' = 0
    /\ nearest_indices' = {}
    /\ temp_gradients' = <<>>
    /\ UNCHANGED <<argsort, elsewhere>>

\* prepare_for_mapping, up to obs_clean = self.clean_weather_data(observations):
\* from here on df is obs_clean, the DataFrame dropna made.
PrepareForMapping ==
    /\ pc = "idle"
    /\ ret.op = "none"
    /\ IF observations = <<>>
       THEN \* if not observations.empty: skipped, result stays {}
            /\ ret' = Returned("prepare_for_mapping", 0, <<>>, <<>>, FALSE)
            /\ df' = df
       ELSE /\ df' = NewFrame(CleanRows(observations))
            /\ ret' = Returned("clean_weather_data", 0, <<>>, <<>>, TRUE)
    /\ UNCHANGED <<pc, i, nearest_indices, temp_gradients, argsort, elsewhere>>

\* result['grid_data'] = self.aggregate_by_grid(obs_clean)
PrepareGridData == ret.op = "clean_weather_data" /\ AggregateByGrid(DefaultGridSize)

\* result['weather_zones'] = self.create_weather_zones(obs_clean)
PrepareWeatherZones == ret.op = "aggregate_by_grid" /\ CreateWeatherZones

\* result['gradients'] = self.calculate_weather_gradients(obs_clean), reached
\* when create_weather_zones has not raised.
PrepareGradients ==
    /\ ret.op = "create_weather_zones"
    /\ ret.raised = "none"
    /\ CalculateWeatherGradients

NextPrepare ==
    \/ PrepareForMapping
    \/ PrepareGridData
    \/ PrepareWeatherZones
    \/ PrepareGradients
    \/ GradientStep
    \/ GradientReturn

SpecPrepare == InitPrepare /\ [][NextPrepare]_vars

\* ---------------------------- the second invocation, on its own DataFrame
\* The operations below are the ones above, run by another thread on
\* other.df with locals of its own; np.argsort is the same function for both.
OtherAggregateByGrid(g) ==
    /\ other.pc = "idle"
    /\ other.ret.op = "none"
    /\ IF other.df.rows = <<>>
       THEN other' = [other EXCEPT
                        !.ret = Returned("aggregate_by_grid", g, <<>>, <<>>, FALSE)]
       ELSE other' = [other EXCEPT
                        !.df.grid_lat = Column([k \in Indices(other.df.rows) |->
                                          GridKey(other.df.rows[k].latitude, g)]),
                        !.df.grid_lon = Column([k \in Indices(other.df.rows) |->
                                          GridKey(other.df.rows[k].longitude, g)]),
                        !.ret = Returned("aggregate_by_grid", g,
                                         AggregateCells(other.df.rows, g), <<>>, FALSE)]
    /\ UNCHANGED <<thisCall, argsort, observations, limiterVars, apiVars>>

OtherCreateWeatherZones ==
    /\ other.pc = "idle"
    /\ other.ret.op = "none"
    /\ IF other.df.rows = <<>>
       THEN other' = [other EXCEPT
                        !.ret = Returned("create_weather_zones", 0, <<>>, <<>>, FALSE)]
       ELSE IF BinsRejected(other.df.rows)
       THEN other' = [other EXCEPT !.ret = Raised("create_weather_zones", "ValueError")]
       ELSE other' = [other EXCEPT
                        !.df.temp_zone = Column(TempZoneColumn(other.df.rows)),
                        !.ret = Returned("create_weather_zones", 0, <<>>,
                                         ZoneRows(other.df.rows,
                                                  TempZoneColumn(other.df.rows), 1),
                                         FALSE)]
    /\ UNCHANGED <<thisCall, argsort, observations, limiterVars, apiVars>>

OtherCalculateWeatherGradients ==
    /\ other.pc = "idle"
    /\ other.ret.op = "none"
    /\ IF Len(other.df.rows) < 2
       THEN other' = [other EXCEPT
                        !.ret = Returned("calculate_weather_gradients", 0, <<>>, <<>>,
                                         TRUE)]
       ELSE other' = [other EXCEPT !.pc = "gradients", !.i = 0,
                                   !.nearest_indices = {}, !.temp_gradients = <<>>]
    /\ UNCHANGED <<thisCall, argsort, observations, limiterVars, apiVars>>

\* One iteration of the other invocation's loop, were temp_gradients one list
\* kept on the processor and shared by all invocations.
OtherGradientStepSharedList ==
    /\ other.pc = "gradients"
    /\ other.i < Len(other.df.rows)
    /\ \E N \in ArgSortSlices(other.df.rows, other.i + 1, argsort) :
           /\ other' = [other EXCEPT !.i = @ + 1, !.nearest_indices = N]
           /\ temp_gradients' =
                  Append(temp_gradients, GradientOf(other.df.rows, other.i + 1, N))
           /\ argsort' = Memoized(argsort, other.df.rows, other.i + 1, N)
    /\ UNCHANGED <<df, ret, pc, i, nearest_indices, observations, limiterVars, apiVars>>

OtherGradientStep ==
    /\ other.pc = "gradients"
    /\ other.i < Len(other.df.rows)
    /\ \E N \in ArgSortSlices(other.df.rows, other.i + 1, argsort) :
           /\ other' = [other EXCEPT
                          !.i = @ + 1,
                          !.nearest_indices = N,
                          !.temp_gradients =
                              Append(@, GradientOf(other.df.rows, other.i + 1, N))]
           /\ argsort' = Memoized(argsort, other.df.rows, other.i + 1, N)
    /\ UNCHANGED <<thisCall, observations, limiterVars, apiVars>>

OtherGradientReturn ==
    /\ other.pc = "gradients"
    /\ other.i = Len(other.df.rows)
    /\ other' = [other EXCEPT
                    !.df.temperature_gradient = Column(other.temp_gradients),
                    !.ret = Returned("calculate_weather_gradients", 0, <<>>, <<>>, TRUE),
                    !.pc = "idle", !.i = 0,
                    !.nearest_indices = {}, !.temp_gradients = <<>>]
    /\ UNCHANGED <<thisCall, argsort, observations, limiterVars, apiVars>>

\* Two threads, each invoking one operation on a batch of its own.
ConcurrentObservations ==
    {Observation(0, 0, Some(0)), Observation(0, 0, Some(1)), Observation(1, 0, Some(0))}

InitConcurrent ==
    \E rows, others \in SeqUpTo(ConcurrentObservations, MaxConcurrentBatch) :
        /\ df = NewFrame(rows)
        /\ ret = NoReturn
        /\ pc = "idle"
        /\ i = 0
        /\ nearest_indices = {}
        /\ temp_gradients = <<>>
        /\ argsort = <<>>
        /\ observations = <<>>
        /\ other = NewCall(others)
        /\ NewClient
        /\ NoRequests
        /\ NewOptimizer(0)

NextConcurrent ==
    \/ (ret.op = "none" /\ AggregateByGrid(DefaultGridSize))
    \/ (ret.op = "none" /\ CreateWeatherZones)
    \/ (ret.op = "none" /\ CalculateWeatherGradients)
    \/ GradientStep
    \/ GradientReturn
    \/ OtherAggregateByGrid(DefaultGridSize)
    \/ OtherCreateWeatherZones
    \/ OtherCalculateWeatherGradients
    \/ OtherGradientStep
    \/ OtherGradientReturn

SpecConcurrent == InitConcurrent /\ [][NextConcurrent]_vars

\* ------------------------------------------------ implement_rate_limiting
Threads == 1..MaxThreads

\* The times the optimizer may be created at: at the epoch, and 100 minutes
\* after it (as at any later time, current_time // 60 is then below
\* current_time - 60).
StartTimes == {0, 6000}

\* Seconds that pass between two steps.
TickSteps == {30, 60}

\* The window "minute_ago = current_time - 60" and the key
\* "int(current_time // 60)" both use 60.
SecondsPerMinute == 60

\* {timestamp: count for ... in request_times.items() if timestamp > minute_ago}
CleanOldRequests(times, current_time) ==
    [timestamp \in {t \in DOMAIN times : t > current_time - SecondsPerMinute} |->
        times[timestamp]]

\* sum(self.request_times.values())
TotalRequests(times) == SumOver(times, DOMAIN times)

\* request_times[current_minute] = request_times.get(current_minute, 0) + 1
RecordRequest(times, current_minute) ==
    [t \in DOMAIN times \cup {current_minute} |->
        IF t = current_minute
        THEN (IF t \in DOMAIN times THEN times[t] ELSE 0) + 1
        ELSE times[t]]

InitLimiter ==
    \E now \in StartTimes :
        /\ NewOptimizer(now)
        /\ df = NewFrame(<<>>)
        /\ ret = NoReturn
        /\ pc = "idle"
        /\ i = 0
        /\ nearest_indices = {}
        /\ temp_gradients = <<>>
        /\ argsort = <<>>
        /\ observations = <<>>
        /\ other = NewCall(<<>>)
        /\ NewClient
        /\ NoRequests

\* with self.rate_limit_lock: entered by thread t.
AcquireRateLimitLock(t) ==
    /\ rate_limit_lock = {}
    /\ Len(calls) < MaxCalls
    /\ rate_limit_lock' = {t}
    /\ UNCHANGED <<request_times, clock, calls>>
    /\ UNCHANGED <<thisCall, argsort, observations, other, apiVars>>

\* The body of implement_rate_limiting, run by the thread holding the lock, and
\* the release of the lock on return.
ImplementRateLimiting(t, max_requests_per_minute) ==
    /\ rate_limit_lock = {t}
    /\ LET current_time   == clock
           kept           == CleanOldRequests(request_times, current_time)
           current_minute == current_time \div SecondsPerMinute
       IN  IF TotalRequests(kept) >= max_requests_per_minute
           THEN /\ request_times' = kept
                /\ calls' = Append(calls, [at |-> current_time,
                                           limit |-> max_requests_per_minute,
                                           allowed |-> FALSE])
           ELSE /\ request_times' = RecordRequest(kept, current_minute)
                /\ calls' = Append(calls, [at |-> current_time,
                                           limit |-> max_requests_per_minute,
                                           allowed |-> TRUE])
    /\ rate_limit_lock' = {}
    /\ UNCHANGED clock
    /\ UNCHANGED <<thisCall, argsort, observations, other, apiVars>>

\* Time passes.
Tick(seconds) ==
    /\ \E now \in StartTimes : now <= clock /\ clock + seconds <= now + MaxElapsed
    /\ clock' = clock + seconds
    /\ UNCHANGED <<request_times, rate_limit_lock, calls>>
    /\ UNCHANGED <<thisCall, argsort, observations, other, apiVars>>

NextLimiter ==
    \/ \E t \in Threads : AcquireRateLimitLock(t)
    \/ \E t \in Threads, m \in 1..MaxLimit : ImplementRateLimiting(t, m)
    \/ \E seconds \in TickSteps : Tick(seconds)

SpecLimiter == InitLimiter /\ [][NextLimiter]_vars

\* --------------------------------------------------------- XweatherClient
\* Cache settings of config.py.
CACHE_TTL == 300

MAX_CACHE_SIZE == 1000

\* Seconds that pass between two steps of the client.
TimerSteps == {100, 200}

\* CPython's hash of a number with an integral value n (|n| < 2^61 - 1): n
\* itself, except that -1 is reserved and hashes to -2.
Hash(n) == IF n = -1 THEN -2 ELSE n

\* hash(frozenset(d.items())) is computed from the hashes of the items, and the
\* hash of an item (a tuple) from the hashes of its key and of its value: two
\* dicts with equal ItemsHash have equal hashes.  (Hashes that agree by chance
\* on other values are left out.)
ItemsHash(d) == {<<name, Hash(d[name])>> : name \in DOMAIN d}

\* f"{endpoint}_{hash(frozenset(params.items()))}"; client_id and
\* client_secret, the same in every call, are left out of params.
CacheKey(endpoint, params) == <<endpoint, ItemsHash(params)>>

\* get_observations(lat, lon, radius): the endpoint ends in the coordinates, and
\* 'radius' is the text f"{radius}km", kept as the number radius.
ObservationsRequest(lat, radius) ==
    [method |-> "get_observations", endpoint |-> <<"observations", lat>>,
     params |-> [radius |-> radius, limit |-> 100]]

\* get_forecast(lat, lon, days).
ForecastRequest(lat, days) ==
    [method |-> "get_forecast", endpoint |-> <<"forecasts", lat>>,
     params |-> [limit |-> days]]

ClientRequests == {ObservationsRequest(0, 50), ForecastRequest(0, 5)}

\* What the server may answer to the n-th HTTP request: a body with success
\* true, a body with success false, or a status that raise_for_status rejects
\* (session.get raising for want of an answer is handled by the same except).
Responses(n) ==
    {[status |-> 200, success |-> TRUE, serial |-> n],
     [status |-> 200, success |-> FALSE, serial |-> n],
     [status |-> 500, success |-> FALSE, serial |-> n]}

\* TTLCache.__contains__ at the time now: the key is linked and has not expired.
Contains(c, key, now) ==
    \E k \in 1..Len(c) : c[k].key = key /\ now < c[k].expires

\* TTLCache.__getitem__ of a key that Contains.
GetItem(c, key) == c[CHOOSE k \in 1..Len(c) : c[k].key = key].value

\* TTLCache.expire(now): the expired entries are unlinked.
Expire(c, now) ==
    LET live(e) == now < e.expires
    IN  SelectSeq(c, live)

\* TTLCache.__setitem__ at the time now: expired entries go, the oldest entry
\* is evicted when a new key finds the cache full, and the entry is linked last
\* with expires = now + ttl.
SetItem(c, key, value, now) ==
    LET others(e) == e.key # key
        kept      == SelectSeq(Expire(c, now), others)
        room      == IF Len(kept) >= MAX_CACHE_SIZE THEN Tail(kept) ELSE kept
    IN  Append(room, [key |-> key, value |-> value, expires |-> now + CACHE_TTL])

\* response.raise_for_status() and self.cache[cache_key] = data, with every
\* status stored.
StoreResponseAnyStatus(c, key, response, now) == SetItem(c, key, response, now)

\* response.raise_for_status(); data = response.json();
\* self.cache[cache_key] = data: a rejected status leaves before the store.
StoreResponse(c, key, response, now) ==
    IF response.status = 200 THEN SetItem(c, key, response, now) ELSE c

\* A finished call of get_observations or get_forecast: when it was made,
\* whether session.get was called, the data _make_request returned (if it
\* did), and the error that left the method (if one did).
ClientCall(req, at, http, data, raised) ==
    [method |-> req.method, endpoint |-> req.endpoint, params |-> req.params,
     at |-> at, http |-> http, data |-> data, raised |-> raised]

\* if not data.get('success'): raise ValueError(...)
CheckSuccess(data) == IF data.success THEN "none" ELSE "ValueError"

\* get_observations or get_forecast, into _make_request.  When the key is in
\* the cache the call stops before line 78; otherwise it runs to its end: the
\* HTTP request, the store, and the check of 'success' by the method.
MakeRequest(req) ==
    /\ making = <<>>
    /\ Len(made) < MaxClientCalls
    /\ LET cache_key == CacheKey(req.endpoint, req.params)
       IN  IF Contains(cache, cache_key, timer)
           THEN /\ making' = <<[request |-> req, at |-> timer]>>
                /\ UNCHANGED <<cache, sent, made>>
           ELSE \E response \in Responses(Len(sent) + 1) :
                    /\ sent' = Append(sent, [endpoint |-> req.endpoint,
                                             params |-> req.params, at |-> timer])
                    /\ cache' = StoreResponse(cache, cache_key, response, timer)
                    /\ made' = Append(made,
                            IF response.status = 200
                            THEN ClientCall(req, timer, TRUE, Some(response),
                                            CheckSuccess(response))
                            ELSE ClientCall(req, timer, TRUE, Missing,
                                            "RequestException"))
                    /\ UNCHANGED making
    /\ UNCHANGED timer
    /\ UNCHANGED <<thisCall, argsort, observations, other, limiterVars, requestVars>>

\* return self.cache[cache_key] (line 78), and the check of 'success' by the
\* method: the timer is read again, and an entry that has expired since
\* line 76 raises KeyError.
ReturnCachedData ==
    /\ making # <<>>
    /\ LET req       == making[1].request
           cache_key == CacheKey(req.endpoint, req.params)
       IN  IF Contains(cache, cache_key, timer)
           THEN made' = Append(made,
                    ClientCall(req, making[1].at, FALSE,
                               Some(GetItem(cache, cache_key)),
                               CheckSuccess(GetItem(cache, cache_key))))
           ELSE made' = Append(made,
                    ClientCall(req, making[1].at, FALSE, Missing, "KeyError"))
    /\ making' = <<>>
    /\ UNCHANGED <<cache, timer, sent>>
    /\ UNCHANGED <<thisCall, argsort, observations, other, limiterVars, requestVars>>

\* Time passes.
Elapse(seconds) ==
    /\ timer + seconds <= MaxTimer
    /\ timer' = timer + seconds
    /\ UNCHANGED <<cache, sent, making, made>>
    /\ UNCHANGED <<thisCall, argsort, observations, other, limiterVars, requestVars>>

InitClient == StartWith(<<>>)

NextClient ==
    \/ \E req \in ClientRequests : MakeRequest(req)
    \/ ReturnCachedData
    \/ \E seconds \in TimerSteps : Elapse(seconds)

SpecClient == InitClient /\ [][NextClient]_vars

\* ------------------------------------------- optimize_marker_clustering
\* grid_size = 0.01 degrees, one unit of the coordinates.
ClusterGridSize == 1

\* {'lat': ..., 'lon': ..., 'data': row.to_dict()}: a marker of its own, with
\* the key 'is_cluster' (False) or, on the short path, without it.
MarkerEntry(row, is_cluster) ==
    [lat |-> row.latitude, lon |-> row.longitude, count |-> Missing,
     avg_temp |-> Missing, is_cluster |-> is_cluster, data |-> Some(row)]

\* cluster_data of one group: its key, len(group) and the mean temperature.
ClusterEntry(rows, key) ==
    LET cell == GridCell(rows, ClusterGridSize, key)
    IN  [lat |-> key[1], lon |-> key[2],
         count |-> Some(Cardinality({k \in Indices(rows) :
                                        RowKey(rows[k], ClusterGridSize) = key})),
         avg_temp |-> cell.temp_mean, is_cluster |-> Some(TRUE), data |-> Missing]

\* The entries appended for one group: one cluster when the group has more than
\* cluster_threshold rows, else one marker per row, in row order.
GroupEntries(rows, key, cluster_threshold) ==
    LET inGroup(r) == RowKey(r, ClusterGridSize) = key
        group      == SelectSeq(rows, inGroup)
    IN  IF Len(group) > cluster_threshold
        THEN <<ClusterEntry(rows, key)>>
        ELSE [k \in 1..Len(group) |-> MarkerEntry(group[k], Some(FALSE))]

RECURSIVE Clusters(_, _, _)
\* The list built by the loop over df.groupby(['grid_lat', 'grid_lon']).
Clusters(rows, keys, cluster_threshold) ==
    IF keys = <<>> THEN <<>>
    ELSE GroupEntries(rows, Head(keys), cluster_threshold)
             \o Clusters(rows, Tail(keys), cluster_threshold)

\* MapPerformanceOptimizer.optimize_marker_clustering(df, cluster_threshold).
OptimizeMarkerClustering(cluster_threshold) ==
    /\ invocation.op = "none"
    /\ IF Len(df.rows) <= cluster_threshold
       THEN /\ invocation' = ReturnedList("optimize_marker_clustering",
                               <<cluster_threshold>>,
                               [k \in Indices(df.rows) |->
                                   MarkerEntry(df.rows[k], Missing)])
            /\ df' = df
       ELSE /\ df' = [df EXCEPT
                        !.grid_lat = Column([k \in Indices(df.rows) |->
                            GridKey(df.rows[k].latitude, ClusterGridSize)]),
                        !.grid_lon = Column([k \in Indices(df.rows) |->
                            GridKey(df.rows[k].longitude, ClusterGridSize)])]
            /\ invocation' = ReturnedList("optimize_marker_clustering",
                               <<cluster_threshold>>,
                               Clusters(df.rows,
                                        SortedKeys(GroupKeys(df.rows, ClusterGridSize)),
                                        cluster_threshold))
    /\ UNCHANGED <<ret, pc, i, nearest_indices, temp_gradients, argsort>>
    /\ UNCHANGED <<observations, other, limiterVars, clientVars>>
    /\ UNCHANGED <<requests_data, future_to_request, results>>

\* Markers at two grid cells, with a temperature or without.
MarkerObservations ==
    {Observation(lat, 0, temp) : lat \in {0, 1}, temp \in {Missing, Some(0), Some(1)}}

InitMarkers == \E rows \in SeqUpTo(MarkerObservations, MaxMarkers) : StartWith(rows)

NextMarkers == \E cluster_threshold \in 1..MaxThreshold :
                   OptimizeMarkerClustering(cluster_threshold)

SpecMarkers == InitMarkers /\ [][NextMarkers]_vars

\* ------------------------------------------------- PerformanceOptimizer
\* Requests as in examples/performance_example.py: dicts with the keys 'lat',
\* 'lon' and 'radius', here with whole degrees of latitude.
ApiRequests == {[lat |-> lat, lon |-> 0, radius |-> 25] : lat \in {-2, -1, 0}}

InitRequests ==
    \E reqs \in SeqUpTo(ApiRequests, MaxRequests) :
        /\ requests_data = reqs
        /\ df = NewFrame(<<>>)
        /\ ret = NoReturn
        /\ pc = "idle"
        /\ i = 0
        /\ nearest_indices = {}
        /\ temp_gradients = <<>>
        /\ argsort = <<>>
        /\ observations = <<>>
        /\ other = NewCall(<<>>)
        /\ NewOptimizer(0)
        /\ NewClient
        /\ future_to_request = <<>>
        /\ results = <<>>
        /\ invocation = NotCalled

\* ---------------------------------------------------- parallel_api_calls
None == Missing

\* What api_function returns for a request, when it does not raise.
ApiFunction(req) == [response_to |-> req]

\* executor.submit(api_function, req): a future waiting in the executor's queue.
NewFuture ==
    [state |-> "pending", exception |-> FALSE, result |-> None, yielded |-> FALSE]

\* The except branch left out: a failed call leaves results as it is.
CollectResultDropFailed(list, future) ==
    IF future.exception THEN list ELSE Append(list, future.result)

\* try: result = future.result(); results.append(result)
\* except Exception: results.append(None)
CollectResult(list, future) ==
    IF future.exception THEN Append(list, None) ELSE Append(list, future.result)

WithState(futures, state) == {k \in 1..Len(futures) : futures[k].state = state}

ParallelFrame ==
    /\ UNCHANGED <<thisCall, argsort, observations, other, limiterVars, clientVars>>
    /\ UNCHANGED requests_data

\* parallel_api_calls up to the loop: results = [] and one executor.submit per
\* request, in the order of requests_data.
ParallelApiCalls(max_workers) ==
    /\ invocation.op = "none"
    /\ invocation' = Called("parallel_api_calls", <<max_workers>>)
    /\ future_to_request' = [k \in 1..Len(requests_data) |-> NewFuture]
    /\ results' = <<>>
    /\ ParallelFrame

\* An idle worker thread of the pool (there are at most max_workers) takes the
\* call that has waited longest in the queue.
WorkerStart ==
    /\ invocation.op = "parallel_api_calls"
    /\ WithState(future_to_request, "pending") # {}
    /\ Cardinality(WithState(future_to_request, "running")) < invocation.args[1]
    /\ LET k == MinOf(WithState(future_to_request, "pending"))
       IN  future_to_request' = [future_to_request EXCEPT ![k].state = "running"]
    /\ UNCHANGED <<results, invocation>>
    /\ ParallelFrame

\* A worker thread ends its call of api_function: it returns or it raises.
WorkerFinish(k, raises) ==
    /\ invocation.op = "parallel_api_calls"
    /\ k \in WithState(future_to_request, "running")
    /\ future_to_request' =
           [future_to_request EXCEPT
               ![k] = [state |-> "finished", exception |-> raises,
                       result |-> IF raises THEN None
                                  ELSE Some(ApiFunction(requests_data[k])),
                       yielded |-> FALSE]]
    /\ UNCHANGED <<results, invocation>>
    /\ ParallelFrame

\* One turn of "for future in as_completed(future_to_request)": a finished
\* future not yielded before is yielded, and its outcome appended to results.
AsCompleted(k) ==
    /\ invocation.op = "parallel_api_calls"
    /\ ~invocation.returned
    /\ k \in WithState(future_to_request, "finished")
    /\ ~future_to_request[k].yielded
    /\ results' = CollectResult(results, future_to_request[k])
    /\ future_to_request' = [future_to_request EXCEPT ![k].yielded = TRUE]
    /\ UNCHANGED invocation
    /\ ParallelFrame

\* as_completed is exhausted: the executor is shut down and results returned.
ParallelReturn ==
    /\ invocation.op = "parallel_api_calls"
    /\ ~invocation.returned
    /\ \A k \in 1..Len(future_to_request) : future_to_request[k].yielded
    /\ invocation' = ReturnedList("parallel_api_calls", invocation.args, results)
    /\ UNCHANGED <<future_to_request, results>>
    /\ ParallelFrame

NextParallel ==
    \/ \E max_workers \in 1..MaxWorkers : ParallelApiCalls(max_workers)
    \/ WorkerStart
    \/ \E k \in 1..Len(future_to_request), raises \in BOOLEAN : WorkerFinish(k, raises)
    \/ \E k \in 1..Len(future_to_request) : AsCompleted(k)
    \/ ParallelReturn

SpecParallel == InitRequests /\ [][NextParallel]_vars

\* ------------------------------------ optimize_api_requests, batch_requests
RECURSIVE UniqueRequests(_, _)
\* The loop of optimize_api_requests over the requests still to see, with the
\* keys seen so far: a request is kept when its req_key is new.
UniqueRequests(reqs, seen_requests) ==
    IF reqs = <<>> THEN <<>>
    ELSE LET req     == Head(reqs)
             req_key == ItemsHash(req)
         IN  IF req_key \notin seen_requests
             THEN <<req>> \o UniqueRequests(Tail(reqs), seen_requests \cup {req_key})
             ELSE UniqueRequests(Tail(reqs), seen_requests)

OptimizeApiRequests ==
    /\ invocation.op = "none"
    /\ invocation' = ReturnedList("optimize_api_requests", <<>>,
                                  UniqueRequests(requests_data, {}))
    /\ UNCHANGED <<future_to_request, results>>
    /\ ParallelFrame

\* A slice that loses its last element.
SliceDropLast(s, from, to) ==
    SubSeq(s, from + 1, (IF to <= Len(s) THEN to ELSE Len(s)) - 1)

\* Python's s[from:to] for 0 <= from <= to: the end is clipped to len(s).
Slice(s, from, to) == SubSeq(s, from + 1, IF to <= Len(s) THEN to ELSE Len(s))

RECURSIVE Batches(_, _, _)
\* for i in range(from, len(requests_data), batch_size):
\*     batches.append(requests_data[i:i + batch_size])
Batches(reqs, from, batch_size) ==
    IF from >= Len(reqs) THEN <<>>
    ELSE <<Slice(reqs, from, from + batch_size)>>
             \o Batches(reqs, from + batch_size, batch_size)

BatchRequests(batch_size) ==
    /\ invocation.op = "none"
    /\ invocation' = ReturnedList("batch_requests", <<batch_size>>,
                                  Batches(requests_data, 0, batch_size))
    /\ UNCHANGED <<future_to_request, results>>
    /\ ParallelFrame

NextRequests ==
    \/ OptimizeApiRequests
    \/ \E batch_size \in 1..MaxBatchSize : BatchRequests(batch_size)

SpecRequests == InitRequests /\ [][NextRequests]_vars

NextGrid == \E g \in GridSizes : AggregateByGrid(g)

SpecGrid == InitGrid /\ [][NextGrid]_vars

InitZones == \E rows \in SeqUpTo(ZoneObservations, MaxZoneBatch) : StartWith(rows)

NextZones == CreateWeatherZones

SpecZones == InitZones /\ [][NextZones]_vars

\* The batch of five temperatures of the worked example, in any order and
\* with repetitions.
ExampleTemps == {10, 20, 30, 40, 50}

InitExample ==
    \E rows \in [1..Cardinality(ExampleTemps) ->
                    {Observation(0, 0, Some(t)) : t \in ExampleTemps}] :
        StartWith(rows)

SpecExample == InitExample /\ [][NextZones]_vars

\* Batches of small temperatures, and the batch of the five temperatures.
InitThresholds == InitZones \/ InitExample

SpecThresholds == InitThresholds /\ [][NextZones]_vars

InitGrad == \E rows \in SeqUpTo(GradObservations, MaxGradBatch) : StartWith(rows)

NextGrad == CalculateWeatherGradients \/ GradientStep \/ GradientReturn

SpecGrad == InitGrad /\ [][NextGrad]_vars

\* The three operations called in any order on one batch.
Observations ==
    {Observation(lat, lon, temp) :
        lat \in {0, 1}, lon \in {0}, temp \in {Missing, Some(0), Some(1)}}

Init == \E rows \in SeqUpTo(Observations, MaxBatch) : StartWith(rows)

Next ==
    \/ \E g \in GridSizes : AggregateByGrid(g)
    \/ CreateWeatherZones
    \/ CalculateWeatherGradients
    \/ GradientStep
    \/ GradientReturn

Spec == Init /\ [][Next]_vars

\* ------------------------------------------------- claims: aggregate_by_grid
\* aggregate_by_grid has returned its cells for the batch in df.
AggDone == pc = "idle" /\ ret.op = "aggregate_by_grid" /\ ret.raised = "none"

\* Row r maps to cell c of a grid of size g: c's key is the multiple of g at or
\* below r's coordinate, in latitude and in longitude.
InCell(r, c, g) ==
    /\ c.grid_lat % g = 0
    /\ c.grid_lat <= r.latitude
    /\ r.latitude < c.grid_lat + g
    /\ c.grid_lon % g = 0
    /\ c.grid_lon <= r.longitude
    /\ r.longitude < c.grid_lon + g

CellMembers(c) == {k \in Indices(df.rows) : InCell(df.rows[k], c, ret.grid_size)}

\* C1 (as claimed): every returned cell's station_count is the number of input
\* observations that map to the cell, observations with a missing temperature
\* included.
C1_CountIsMembers ==
    AggDone =>
        \A c \in DOMAIN ret.cells :
            ret.cells[c].station_count = Cardinality(CellMembers(ret.cells[c]))

\* C2: aggregate_by_grid keys every observation by floor division: grid_lat and
\* grid_lon are multiples of grid_size, at or below the coordinate and less than
\* one grid_size below it, and the observation's cell carries that key.
C2_FloorKeys ==
    (AggDone /\ df.rows # <<>>) =>
        \A k \in Indices(df.rows) :
            LET g    == ret.grid_size
                glat == df.grid_lat.values[k]
                glon == df.grid_lon.values[k]
            IN  /\ glat % g = 0
                /\ glat <= df.rows[k].latitude
                /\ df.rows[k].latitude < glat + g
                /\ glon % g = 0
                /\ glon <= df.rows[k].longitude
                /\ df.rows[k].longitude < glon + g
                /\ \E c \in DOMAIN ret.cells :
                       ret.cells[c].grid_lat = glat /\ ret.cells[c].grid_lon = glon

\* A negative latitude strictly inside a cell was keyed to the edge below it.
C2_Witness ==
    /\ AggDone
    /\ \E k \in Indices(df.rows) :
           /\ df.rows[k].latitude < 0
           /\ df.rows[k].latitude % ret.grid_size # 0
           /\ df.grid_lat.values[k] < df.rows[k].latitude

\* C3: on a non-empty batch the returned cells partition the batch: every cell
\* has an observation mapping to it, no key appears twice, and every observation
\* maps to exactly one returned cell.
C3_Partition ==
    (AggDone /\ df.rows # <<>>) =>
        /\ \A c \in DOMAIN ret.cells : CellMembers(ret.cells[c]) # {}
        /\ \A c, d \in DOMAIN ret.cells :
               c # d => \/ ret.cells[c].grid_lat # ret.cells[d].grid_lat
                        \/ ret.cells[c].grid_lon # ret.cells[d].grid_lon
        /\ \A k \in Indices(df.rows) :
               Cardinality({c \in DOMAIN ret.cells :
                               InCell(df.rows[k], ret.cells[c], ret.grid_size)}) = 1

\* Two observations, one without a temperature, were put into two cells.
C3_Witness ==
    /\ AggDone
    /\ Len(ret.cells) >= 2
    /\ \E k \in Indices(df.rows) : IsMissing(df.rows[k].temperature)

\* C4 (as claimed): a call with a grid_size at least as large as the preceding
\* call's, on the same batch, never returns more cells.
C4_MonotoneAnySizes ==
    [][(AggDone /\ AggDone' /\ ret.grid_size <= ret'.grid_size)
           => Len(ret'.cells) <= Len(ret.cells)]_vars

\* C4 (amended): a call whose grid_size is a whole multiple of the preceding
\* call's, on the same batch, never returns more cells.
C4_MonotoneMultiples ==
    [][(AggDone /\ AggDone' /\ ret'.grid_size % ret.grid_size = 0)
           => Len(ret'.cells) <= Len(ret.cells)]_vars

\* The cells returned are fewer than a finer grid dividing this one gives.
C4_Witness ==
    /\ AggDone
    /\ \E g \in GridSizes :
           /\ 1 < g
           /\ g < ret.grid_size
           /\ ret.grid_size % g = 0
           /\ Len(ret.cells) < Len(AggregateCells(df.rows, g))

\* ---------------------------------------------- claims: create_weather_zones
\* create_weather_zones has returned zones for the (non-empty) batch in df.
ZonesDone ==
    /\ pc = "idle"
    /\ ret.op = "create_weather_zones"
    /\ ret.raised = "none"
    /\ df.rows # <<>>

\* n * (n * sum t^2 - (sum t)^2) = n^2 * (n - 1) * std^2, from the sums of the
\* temperatures and of their squares.
ScaledVariance ==
    LET rows == df.rows
        n    == TempCount(rows)
        q    == SeqSum([k \in DOMAIN Temperatures(rows) |->
                            Temperatures(rows)[k] * Temperatures(rows)[k]])
    IN  n * (n * q - TempSum(rows) * TempSum(rows))

\* n * (t - mean) and n^2 * (n - 1) * (t - mean)^2 for row k.
ScaledDev(k) == TempCount(df.rows) * TempOf(df.rows, k) - TempSum(df.rows)

ScaledSqDev(k) == ScaledDev(k) * ScaledDev(k) * (TempCount(df.rows) - 1)

TempBelowLower(k) == ScaledDev(k) < 0 /\ ScaledSqDev(k) > ScaledVariance

TempAtLower(k) == ScaledDev(k) < 0 /\ ScaledSqDev(k) = ScaledVariance

TempAtUpper(k) == ScaledDev(k) > 0 /\ ScaledSqDev(k) = ScaledVariance

TempAboveUpper(k) == ScaledDev(k) > 0 /\ ScaledSqDev(k) > ScaledVariance

\* C5 (as claimed): Cold when temp < mean - std, Warm when temp > mean + std and
\* Moderate on the closed interval between, so temp = mean - std is Moderate.
C5_ModerateClosedBothEnds ==
    ZonesDone =>
        \A k \in WithTemperature(df.rows) :
            df.temp_zone.values[k] =
                IF TempBelowLower(k) THEN "Cold Zone"
                ELSE IF TempAboveUpper(k) THEN "Warm Zone"
                ELSE "Moderate Zone"

\* C5 (amended): Cold when temp <= mean - std, Moderate when
\* mean - std < temp <= mean + std, Warm when temp > mean + std.
C5_ZonesRightClosed ==
    ZonesDone =>
        \A k \in WithTemperature(df.rows) :
            df.temp_zone.values[k] =
                IF TempBelowLower(k) \/ TempAtLower(k) THEN "Cold Zone"
                ELSE IF TempAboveUpper(k) THEN "Warm Zone"
                ELSE "Moderate Zone"

\* Zones were assigned to a batch with an observation exactly at mean - std.
C5_Witness ==
    /\ ZonesDone
    /\ \E k \in WithTemperature(df.rows) : TempAtLower(k)

\* C6: a temperature exactly on a threshold falls into the lower bucket:
\* temp = mean - std is Cold, temp = mean + std is Moderate.
C6_TiesGoLower ==
    ZonesDone =>
        \A k \in WithTemperature(df.rows) :
            /\ TempAtLower(k) => df.temp_zone.values[k] = "Cold Zone"
            /\ TempAtUpper(k) => df.temp_zone.values[k] = "Moderate Zone"

\* Zones were assigned to a batch with an observation exactly at mean + std.
C6_Witness ==
    /\ ZonesDone
    /\ \E k \in WithTemperature(df.rows) : TempAtUpper(k)

\* C7 (as claimed): with fewer than 2 observations carrying a temperature,
\* create_weather_zones fails with InsufficientDataError.
C7_InsufficientDataError ==
    (/\ pc = "idle"
     /\ ret.op = "create_weather_zones"
     /\ TempCount(df.rows) < 2) => ret.raised = "InsufficientDataError"

\* --------------------------------------- claims: calculate_weather_gradients
\* The loop has just handled row i: nearest_indices are its neighbours and
\* temp_gradients[i] its gradient.
RowDone == pc = "gradients" /\ i >= 1

\* calculate_weather_gradients has returned.
GradDone == pc = "idle" /\ ret.op = "calculate_weather_gradients"

\* C8 (as claimed): the neighbours of row i are the 3 nearest other rows (all
\* others when there are fewer than 3): row i is not among them and no other
\* row left out is nearer than a chosen one.
C8_NearestOthers ==
    RowDone =>
        /\ i \notin nearest_indices
        /\ Cardinality(nearest_indices) =
               (IF Len(df.rows) - 1 < 3 THEN Len(df.rows) - 1 ELSE 3)
        /\ \A a \in nearest_indices :
               \A b \in Indices(df.rows) \ (nearest_indices \cup {i}) :
                   SqDist(df.rows, i, a) <= SqDist(df.rows, i, b)

\* C9 (as claimed): in a batch of 2 or 3 observations every gradient is 0.
C9_ZeroBelowThreeOthers ==
    (GradDone /\ Len(df.rows) \in {2, 3}) =>
        \A k \in Indices(df.rows) :
            df.temperature_gradient.values[k] = ZeroGradient

\* Row i's temperature times the number of its neighbours with a temperature
\* equals the sum of their temperatures: it equals their mean.
EqualsNeighbourMean ==
    LET known == nearest_indices \cap WithTemperature(df.rows)
    IN  /\ ~IsMissing(df.rows[i].temperature)
        /\ known # {}
        /\ TempOf(df.rows, i) * Cardinality(known) =
               SumOver([b \in Indices(df.rows) |->
                           IF b \in known THEN TempOf(df.rows, b) ELSE 0], known)

NeighboursCoincide == \A b \in nearest_indices : SqDist(df.rows, i, b) = 0

\* C9 (amended): in a batch of 2 or 3 observations the gradient of an
\* observation is 0 exactly when the mean distance to its selected neighbours is
\* 0 or its temperature equals their mean temperature.
C9_ZeroIffCoincidentOrEqual ==
    (RowDone /\ Len(df.rows) \in {2, 3}) =>
        (temp_gradients[i] = ZeroGradient
            <=> (NeighboursCoincide \/ EqualsNeighbourMean))

\* A row of a batch of 2 or 3 got a gradient that is a number other than 0.
C9_Witness ==
    /\ RowDone
    /\ Len(df.rows) \in {2, 3}
    /\ temp_gradients[i] # ZeroGradient
    /\ ~temp_gradients[i].nan

\* C10 (as claimed): for a batch of exactly one observation the output carries
\* temperature_gradient = 0 for it.
C10_SingleRowZero ==
    (GradDone /\ Len(df.rows) = 1) =>
        /\ df.temperature_gradient.present
        /\ df.temperature_gradient.values = <<ZeroGradient>>

\* The neighbours of row i that carry a temperature.
KnownNeighbours == nearest_indices \cap WithTemperature(df.rows)

\* Number of known neighbours times (temp[i] - mean(temp[N])).
ScaledTempDiff ==
    Cardinality(KnownNeighbours) * TempOf(df.rows, i)
    - SumOver([b \in Indices(df.rows) |->
                  IF b \in KnownNeighbours THEN TempOf(df.rows, b) ELSE 0],
              KnownNeighbours)

\* C11: the gradient of observation i over its selected neighbours N is
\* (temp[i] - mean(temp[N])) / mean(distance(i, N)) when the mean distance is
\* greater than 0 (missing when the difference is missing), and 0 when the mean
\* distance is 0, whatever the temperatures; nothing is divided by zero.
C11_GradientFormula ==
    RowDone =>
        LET g == temp_gradients[i]
        IN  IF NeighboursCoincide THEN g = ZeroGradient
            ELSE IF IsMissing(df.rows[i].temperature) \/ KnownNeighbours = {}
            THEN g.nan
            ELSE /\ ~g.nan
                 /\ g.den > 0
                 /\ g.num * Cardinality(KnownNeighbours) =
                        ScaledTempDiff * Cardinality(nearest_indices) * g.den
                 /\ g.num # 0 =>
                        /\ g.sqdists = SqDistBag(df.rows, i, nearest_indices)
                        /\ \E d \in DOMAIN g.sqdists : d > 0

\* A row whose neighbours all coincide with it, at a temperature other than
\* their mean, got the gradient 0.
C11_Witness ==
    /\ RowDone
    /\ NeighboursCoincide
    /\ ~IsMissing(df.rows[i].temperature)
    /\ KnownNeighbours # {}
    /\ ScaledTempDiff # 0
    /\ temp_gradients[i] = ZeroGradient

\* C12 (as claimed): when the temperature of observation i is missing, or the
\* temperatures of all its selected neighbours are, the gradient of i is
\* missing, also when the mean neighbour distance is 0.
C12_MissingPropagates ==
    (RowDone /\ (IsMissing(df.rows[i].temperature) \/ KnownNeighbours = {}))
        => temp_gradients[i].nan

\* ------------------------------------------------------ claims: all operations
\* A call has finished (returned or raised).
CallDone == pc = "idle" /\ ret.op # "none"

\* C13 (as claimed): a finished call has left the caller's batch as it was, no
\* column added to it, and has returned an object other than the batch.
C13_InputUntouched ==
    CallDone => (df = NewFrame(df.rows) /\ ~ret.is_df)

\* The temperatures of the rows a zone label was assigned to.
ZoneTemps(label) ==
    {TempOf(df.rows, k) : k \in {m \in WithTemperature(df.rows) :
                                     df.temp_zone.values[m] = label}}

\* The returned zone record with this label has these station count, minimum
\* and maximum temperature.
ZoneReturned(label, count, lo, hi) ==
    \E z \in DOMAIN ret.zones :
        /\ ret.zones[z].zone = label
        /\ ret.zones[z].station_count = count
        /\ ret.zones[z].temp_min = lo
        /\ ret.zones[z].temp_max = hi

\* The batch holds each of the temperatures 10, 20, 30, 40 and 50 once.
IsExampleBatch ==
    /\ Len(df.rows) = Cardinality(ExampleTemps)
    /\ {TempOf(df.rows, k) : k \in WithTemperature(df.rows)} = ExampleTemps

\* C14: for the batch with temperatures [10, 20, 30, 40, 50] create_weather_zones
\* returns exactly three zones: Cold = {10}, Moderate = {20, 30, 40} and
\* Warm = {50}, with station counts 1, 3 and 1.
C14_ExampleZones ==
    (pc = "idle" /\ ret.op = "create_weather_zones" /\ IsExampleBatch) =>
        /\ ret.raised = "none"
        /\ Len(ret.zones) = 3
        /\ ZoneTemps("Cold Zone") = {10}
        /\ ZoneTemps("Moderate Zone") = {20, 30, 40}
        /\ ZoneTemps("Warm Zone") = {50}
        /\ ZoneReturned("Cold Zone", 1, 10, 10)
        /\ ZoneReturned("Moderate Zone", 3, 20, 40)
        /\ ZoneReturned("Warm Zone", 1, 50, 50)

\* Zones were returned for the five temperatures in the order 10, ..., 50.
C14_Witness ==
    /\ ZonesDone
    /\ [k \in Indices(df.rows) |-> TempOf(df.rows, k)] = <<10, 20, 30, 40, 50>>
    /\ Len(ret.zones) = 3

\* C15: create_weather_zones returns a record only for a zone some observation
\* was assigned to, at most one per zone, and every returned record has
\* station_count >= 1.
C15_NoEmptyZones ==
    ZonesDone =>
        /\ \A z \in DOMAIN ret.zones :
               /\ ret.zones[z].station_count >= 1
               /\ \E k \in Indices(df.rows) :
                      df.temp_zone.values[k] = ret.zones[z].zone
        /\ \A y, z \in DOMAIN ret.zones :
               ret.zones[y].zone = ret.zones[z].zone => y = z

\* Zones were returned with one of Cold, Moderate and Warm left out: no
\* observation was assigned to it.
C15_Witness ==
    /\ ZonesDone
    /\ Len(ret.zones) < Len(ZoneLabels)
    /\ Len(ret.zones) >= 1

\* C16: on an empty batch aggregate_by_grid returns no cells and
\* calculate_weather_gradients returns the (empty) batch, neither raising.
C16_EmptyInEmptyOut ==
    (CallDone /\ df.rows = <<>>) =>
        /\ ret.op = "aggregate_by_grid" => (ret.raised = "none" /\ ret.cells = <<>>)
        /\ ret.op = "calculate_weather_gradients" =>
               (ret.raised = "none" /\ ret.is_df /\ Len(df.rows) = 0)

\* aggregate_by_grid has returned for the empty batch.
C16_Witness ==
    /\ CallDone
    /\ df.rows = <<>>
    /\ ret.op = "aggregate_by_grid"
    /\ ret.raised = "none"

ValidRaw(r) ==
    /\ ~IsMissing(r.latitude)
    /\ ~IsMissing(r.longitude)
    /\ -9000 <= Val(r.latitude)
    /\ Val(r.latitude) <= 9000
    /\ -18000 <= Val(r.longitude)
    /\ Val(r.longitude) <= 18000

\* C18 (as claimed): the batch aggregate_by_grid keys inside prepare_for_mapping
\* holds the raw observations whose coordinates are present and in range, in
\* their order, and no other: the invalid ones were dropped, the rest kept.
C18_InvalidDropped ==
    (AggDone /\ observations # <<>>) =>
        df.rows = CleanRows(SelectSeq(observations, ValidRaw))

\* ----------------------------------------------- claims: concurrent callers
\* What the invocation on the DataFrame df is at.
ThisInvocation ==
    [df |-> df, ret |-> ret, pc |-> pc, i |-> i,
     nearest_indices |-> nearest_indices, temp_gradients |-> temp_gradients]

\* The invocation c has finished with what its operation gives when run alone
\* on its batch: the cells of the batch, its zones (or the error of pd.cut), or
\* one gradient per row over the neighbours np.argsort selects.
OutputAsAlone(c) ==
    LET rows == c.df.rows
    IN  c.pc = "idle" =>
        /\ c.ret.op = "aggregate_by_grid" =>
               /\ c.ret.raised = "none"
               /\ c.ret.cells = AggregateCells(rows, c.ret.grid_size)
        /\ c.ret.op = "create_weather_zones" =>
               IF rows = <<>> THEN c.ret.raised = "none" /\ c.ret.zones = <<>>
               ELSE IF BinsRejected(rows) THEN c.ret.raised = "ValueError"
               ELSE /\ c.ret.raised = "none"
                    /\ c.ret.zones = ZoneRows(rows, TempZoneColumn(rows), 1)
        /\ (c.ret.op = "calculate_weather_gradients" /\ Len(rows) >= 2) =>
               /\ c.ret.raised = "none"
               /\ c.df.temperature_gradient.present
               /\ Len(c.df.temperature_gradient.values) = Len(rows)
               /\ \A k \in Indices(rows) :
                      /\ DistanceRow(rows, k) \in DOMAIN argsort
                      /\ c.df.temperature_gradient.values[k] =
                             GradientOf(rows, k, argsort[DistanceRow(rows, k)])

\* C19: two invocations on batches of their own, their steps interleaved in any
\* order, each end with the output the operation gives when run alone.
C19_InterleavedAsAlone == OutputAsAlone(ThisInvocation) /\ OutputAsAlone(other)

\* One invocation has returned its gradients, some of them not 0, while the
\* other is inside its own gradient loop.
C19_Witness ==
    /\ pc = "idle"
    /\ ret.op = "calculate_weather_gradients"
    /\ df.temperature_gradient.present
    /\ \E k \in Indices(df.rows) : df.temperature_gradient.values[k] # ZeroGradient
    /\ other.pc = "gradients"
    /\ other.i >= 1
    /\ other.i < Len(other.df.rows)

\* ------------------------------------------- claims: implement_rate_limiting
\* The calls before call k that returned True during the 60 seconds up to it.
AllowedBefore(k) ==
    {j \in 1..(k - 1) : calls[j].allowed /\ calls[j].at > calls[k].at - 60}

\* C20 (as claimed): a call made when max_requests_per_minute calls were already
\* allowed during the preceding 60 seconds returns False, so that never more
\* than max_requests_per_minute calls return True within 60 seconds.
C20_AtMostMaxPerMinute ==
    \A k \in DOMAIN calls :
        Cardinality(AllowedBefore(k)) >= calls[k].limit => ~calls[k].allowed

\* ------------------------------------------------------------------ C21
SameRequest(a, b) == a.endpoint = b.endpoint /\ a.params = b.params

\* C21 (as claimed): after a call was answered over HTTP with a body, every
\* later call for the same endpoint and params made less than CACHE_TTL seconds
\* after it returns that same body without an HTTP request, and one made more
\* than CACHE_TTL seconds after it sends an HTTP request.  (The cache of 1000
\* entries never evicts here.)
C21_CachedUntilExpiry ==
    \A j, k \in 1..Len(made) :
        (/\ j < k
         /\ SameRequest(made[j], made[k])
         /\ made[j].http
         /\ ~IsMissing(made[j].data)
         /\ \A m \in (j + 1)..(k - 1) :
                SameRequest(made[j], made[m]) => ~made[m].http)
        => /\ made[k].at < made[j].at + CACHE_TTL
                => (made[k].data = made[j].data /\ ~made[k].http)
           /\ made[k].at > made[j].at + CACHE_TTL => made[k].http

\* ------------------------------------------------------------------ C26
\* Call k is the first call after call j for the same endpoint and params.
NextSameRequest(calls_made, j, k) ==
    /\ j < k
    /\ SameRequest(calls_made[j], calls_made[k])
    /\ \A m \in (j + 1)..(k - 1) : ~SameRequest(calls_made[j], calls_made[m])

\* C26 (as claimed): after get_observations or get_forecast raised ValueError
\* for a body with success = false, the next call with the same arguments
\* sends a new HTTP request.
C26_ErrorBodyNotCached ==
    \A j, k \in 1..Len(made) :
        (NextSameRequest(made, j, k) /\ made[j].raised = "ValueError")
            => made[k].http

\* ------------------------------------------------------------------ C30
\* C30: a call whose HTTP request fails (raise_for_status rejects the status)
\* leaves with the RequestException and with the cache as it found it, and the
\* next call for the same endpoint and params sends a new HTTP request.
C30_FailureNotCached ==
    [][Len(made') = Len(made) + 1 =>
        LET k == Len(made')
        IN  /\ made'[k].raised = "RequestException" => cache' = cache
            /\ \A j \in 1..Len(made) :
                   (/\ NextSameRequest(made', j, k)
                    /\ made[j].raised = "RequestException")
                   => made'[k].http]_vars

\* A failed call has been followed by a call for the same endpoint and params.
C30_Witness ==
    \E j, k \in 1..Len(made) :
        /\ NextSameRequest(made, j, k)
        /\ made[j].raised = "RequestException"
        /\ IsMissing(made[j].data)
        /\ made[k].http

\* ------------------------------------------------------------------ C22
\* C22 (as claimed): no entry returned by optimize_marker_clustering with
\* is_cluster = True has a count greater than cluster_threshold.
C22_ClusterWithinThreshold ==
    invocation.op = "optimize_marker_clustering" =>
        \A k \in 1..Len(invocation.value) :
            invocation.value[k].is_cluster = Some(TRUE)
                => Val(invocation.value[k].count) <= invocation.args[1]

\* ------------------------------------------------------------------ C23
ParallelDone == invocation.op = "parallel_api_calls" /\ invocation.returned

\* The entry the call for request k leaves: None if it raised, else its result.
EntryOf(k) ==
    IF future_to_request[k].exception THEN None
    ELSE Some(ApiFunction(requests_data[k]))

\* The list holds the entries of the calls, one each, in some order.
OneEntryPerRequest(list) ==
    /\ Len(list) = Len(requests_data)
    /\ \E p \in [1..Len(list) -> 1..Len(list)] :
           /\ \A a, b \in 1..Len(list) : p[a] = p[b] => a = b
           /\ \A a \in 1..Len(list) : list[a] = EntryOf(p[a])

\* C23: whatever the order the worker threads run and finish in, the list
\* parallel_api_calls returns has exactly one entry per request, None for each
\* call that raised; and once every call has finished and been collected the
\* method can return.
C23_OneEntryPerRequest ==
    /\ ParallelDone => OneEntryPerRequest(invocation.value)
    /\ (/\ invocation.op = "parallel_api_calls"
        /\ ~invocation.returned
        /\ \A k \in 1..Len(future_to_request) :
               future_to_request[k].state = "finished")
       => \/ \E k \in 1..Len(future_to_request) : ~future_to_request[k].yielded
          \/ ENABLED ParallelReturn

\* Returned with one call failed and one served, finished out of order.
C23_Witness ==
    /\ ParallelDone
    /\ \E a, b \in 1..Len(requests_data) :
           /\ future_to_request[a].exception
           /\ ~future_to_request[b].exception
    /\ \E a \in 1..Len(requests_data) : invocation.value[a] # EntryOf(a)

\* ------------------------------------------------------------------ C27
\* C27 (as claimed): the i-th entry of the returned list is the outcome of the
\* call for the i-th request.
C27_AlignedWithRequests ==
    ParallelDone =>
        \A k \in 1..Len(requests_data) : invocation.value[k] = EntryOf(k)

\* ------------------------------------------------------------------ C24
RECURSIVE Concatenation(_)
Concatenation(lists) ==
    IF lists = <<>> THEN <<>> ELSE Head(lists) \o Concatenation(Tail(lists))

\* C24: the batches batch_requests returns, joined in order, are requests_data;
\* every batch has between 1 and batch_size requests and every batch but the
\* last exactly batch_size; an empty list gives no batch.
C24_ConsecutiveBatches ==
    invocation.op = "batch_requests" =>
        LET batches    == invocation.value
            batch_size == invocation.args[1]
        IN  /\ Concatenation(batches) = requests_data
            /\ \A b \in 1..Len(batches) :
                   /\ Len(batches[b]) >= 1
                   /\ Len(batches[b]) <= batch_size
                   /\ b < Len(batches) => Len(batches[b]) = batch_size
            /\ requests_data = <<>> => batches = <<>>

\* Batches of 2 or more requests were made, and the last one is not full.
C24_Witness ==
    /\ invocation.op = "batch_requests"
    /\ invocation.args[1] >= 2
    /\ Len(invocation.value) >= 2
    /\ Len(invocation.value[Len(invocation.value)]) < invocation.args[1]

\* ------------------------------------------------------------------ C25
\* The place of the first request of the list equal to req.
FirstOccurrence(reqs, req) == MinOf({k \in 1..Len(reqs) : reqs[k] = req})

\* C25 (as claimed): the list optimize_api_requests returns holds no two equal
\* requests, every request of the input equals exactly one of them, and they
\* stand in the order of their first occurrence in the input.
C25_UniqueInFirstOccurrenceOrder ==
    invocation.op = "optimize_api_requests" =>
        LET unique == invocation.value
        IN  /\ \A a, b \in 1..Len(unique) : unique[a] = unique[b] => a = b
            /\ \A k \in 1..Len(requests_data) :
                   Cardinality({a \in 1..Len(unique) :
                                   unique[a] = requests_data[k]}) = 1
            /\ \A a, b \in 1..Len(unique) :
                   (/\ a < b
                    /\ \E k \in 1..Len(requests_data) : requests_data[k] = unique[a]
                    /\ \E k \in 1..Len(requests_data) : requests_data[k] = unique[b])
                   => FirstOccurrence(requests_data, unique[a])
                          < FirstOccurrence(requests_data, unique[b])

\* ------------------------------------------------------------------ C28
\* C28 (as claimed): on every batch with 2 or more temperatures, those with all
\* temperatures equal included, create_weather_zones raises nothing, gives
\* every observation with a temperature a zone, and the station counts of the
\* zones returned add up to the number of observations with a temperature.
C28_EveryTemperatureZoned ==
    (/\ pc = "idle"
     /\ ret.op = "create_weather_zones"
     /\ TempCount(df.rows) >= 2)
    => /\ ret.raised = "none"
       /\ df.temp_zone.present
       /\ \A k \in WithTemperature(df.rows) :
              \E z \in DOMAIN ZoneLabels : df.temp_zone.values[k] = ZoneLabels[z]
       /\ SeqSum([z \in DOMAIN ret.zones |-> ret.zones[z].station_count])
              = TempCount(df.rows)

\* ------------------------------------------------------------------ C29
\* temp_std squared is the number v.
SquaredHalfWidthIs(v) ==
    TempStdSquared(df.rows)[1] = v * TempStdSquared(df.rows)[2]

\* The zone of row k when the thresholds are mean -/+ s with
\* s^2 = sum (t - mean)^2 / divisor, the bins being closed on the right.
ZoneByDivisor(k, divisor) ==
    IF ScaledDev(k) <= 0 /\ ScaledDev(k) * ScaledDev(k) * divisor >= ScaledVariance
    THEN "Cold Zone"
    ELSE IF ScaledDev(k) > 0 /\ ScaledDev(k) * ScaledDev(k) * divisor > ScaledVariance
    THEN "Warm Zone"
    ELSE "Moderate Zone"

\* C29 (as claimed): the thresholds are mean -/+ s with s the population
\* standard deviation (divisor n): every observation is zoned by them, and for
\* the temperatures 10, 20, 30, 40, 50 the squared half-width s^2 is 200.
C29_PopulationStdThresholds ==
    ZonesDone =>
        /\ \A k \in WithTemperature(df.rows) :
               df.temp_zone.values[k] = ZoneByDivisor(k, TempCount(df.rows))
        /\ IsExampleBatch => SquaredHalfWidthIs(200)

\* C29 (amended): the thresholds are mean -/+ s with s the sample standard
\* deviation (divisor n - 1): every observation is zoned by them, and for the
\* temperatures 10, 20, 30, 40, 50 the squared half-width s^2 is 250.
C29_SampleStdThresholds ==
    ZonesDone =>
        /\ \A k \in WithTemperature(df.rows) :
               df.temp_zone.values[k] = ZoneByDivisor(k, TempCount(df.rows) - 1)
        /\ IsExampleBatch => SquaredHalfWidthIs(250)

\* Zones were returned for the five temperatures in the order 50, ..., 10.
C29_Witness ==
    /\ ZonesDone
    /\ Temperatures(df.rows) = <<50, 40, 30, 20, 10>>
    /\ SquaredHalfWidthIs(250)

====
